---- MODULE Spec2Model ----
(***************************************************************************)
(* Model of modules/whisper/data_classes.py: the parameter records         *)
(* (VadParams, DiarizationParams, BGMSeparationParams, WhisperParams), the *)
(* composite TranscriptionPipelineParams, and the gradio form builders.    *)
(*                                                                         *)
(* A Python value is a record [t |-> type, n |-> number, s |-> text], so    *)
(* that None, an Enum member and a str are never equal by accident.  A     *)
(* float is held in tenths (0.5 is F(5)); float("inf") is F(Inf).  An      *)
(* optional list or mapping argument is [t |-> "none" | "list" | "dict",   *)
(* ...] with its items or its map.                                         *)
(* Reading a field on the class (cls.threshold) is modelled as the         *)
(* field's declared default.  NaN is not modelled.                         *)
(***************************************************************************)
EXTENDS Integers, Sequences, FiniteSets, TLC

VARIABLES
    call,      \* the call being made: the operation and its arguments
    ret,       \* what the call returned: [st |-> "pending" | "ok" | "error", val |-> ...]
    defaults,  \* the caller's defaults mapping handed to a form builder (or None)
    heap,      \* the record instances alive: heap[id] is the instance's field values
    bundles,   \* the TranscriptionPipelineParams alive: each names its four sub-records by id
    nassign    \* number of field assignments made so far

vars == <<call, ret, defaults, heap, bundles, nassign>>

----------------------------------------------------------------------------
(* Bounds of the model *)

\* at most this many keyword arguments in one construction
MaxArgs == 2
\* at most this many keys in a defaults mapping
MaxOverrides == 1
\* at most this many bundles alive
MaxBundles == 2
\* at most this many field assignments in a run
MaxAssign == 2

----------------------------------------------------------------------------
(* Python values *)

None == [t |-> "none", n |-> 0, s |-> ""]
B(b) == [t |-> "bool", n |-> IF b THEN 1 ELSE 0, s |-> ""]
I(n) == [t |-> "int", n |-> n, s |-> ""]
F(n) == [t |-> "float", n |-> n, s |-> ""]
S(s) == [t |-> "str", n |-> 0, s |-> s]

\* float("inf"), in tenths: larger than every finite value of the model
Inf == 1000000

Range(q) == {q[i] : i \in 1..Len(q)}

\* the empty mapping {}
EmptyDict == [k \in {} |-> None]

\* a list argument, and None in the place of one
L(q) == [t |-> "list", items |-> q]
NoList == [t |-> "none", items |-> <<>>]

\* a mapping argument, and None in the place of one
D(m) == [t |-> "dict", map |-> m]
NoDict == [t |-> "none", map |-> EmptyDict]

\* dict.get(key, fallback)
DictGet(d, key, fallback) == IF key \in DOMAIN d THEN d[key] ELSE fallback

\* modules.utils.constants.AUTOMATIC_DETECTION.unwrap()
AUTOMATIC_DETECTION == S("Automatic Detection")

(* class WhisperImpl(Enum): members are not strings *)
WhisperImpl(name) == [t |-> "WhisperImpl", n |-> 0, s |-> name]
WHISPER == WhisperImpl("whisper")
FASTER_WHISPER == WhisperImpl("faster-whisper")
INSANELY_FAST_WHISPER == WhisperImpl("insanely_fast_whisper")

\* a value of the annotated type, or None where the annotation is Optional
TypeOk(ty, optional, x) == x.t = ty \/ (optional /\ x = None)

ValidationError == [st |-> "error", val |-> "ValidationError"]
Pending == [st |-> "pending", val |-> "none"]
Ok(x) == [st |-> "ok", val |-> x]

----------------------------------------------------------------------------
(* class VadParams *)

VadParams_fields ==
    <<"vad_filter", "threshold", "min_speech_duration_ms",
      "max_speech_duration_s", "min_silence_duration_ms", "speech_pad_ms">>

VadParams_type ==
    [vad_filter |-> "bool", threshold |-> "float", min_speech_duration_ms |-> "int",
     max_speech_duration_s |-> "float", min_silence_duration_ms |-> "int",
     speech_pad_ms |-> "int"]

\* a mutant: the threshold default written in percent, outside its own bound
VadParams_default_Unscaled ==
    [vad_filter |-> B(FALSE), threshold |-> F(500), min_speech_duration_ms |-> I(250),
     max_speech_duration_s |-> F(Inf), min_silence_duration_ms |-> I(2000),
     speech_pad_ms |-> I(400)]

VadParams_default ==
    [vad_filter |-> B(FALSE), threshold |-> F(5), min_speech_duration_ms |-> I(250),
     max_speech_duration_s |-> F(Inf), min_silence_duration_ms |-> I(2000),
     speech_pad_ms |-> I(400)]

\* a mutant: the upper bound of threshold is lost
VadParams_constraint_NoLe(f, x) ==
    CASE f = "threshold" -> x.n >= 0
      [] f = "min_speech_duration_ms" -> x.n >= 0
      [] f = "max_speech_duration_s" -> x.n > 0
      [] f = "min_silence_duration_ms" -> x.n >= 0
      [] f = "speech_pad_ms" -> x.n >= 0
      [] OTHER -> TRUE

\* the ge/le/gt of each Field
VadParams_constraint(f, x) ==
    CASE f = "threshold" -> x.n >= 0 /\ x.n <= 10
      [] f = "min_speech_duration_ms" -> x.n >= 0
      [] f = "max_speech_duration_s" -> x.n > 0
      [] f = "min_silence_duration_ms" -> x.n >= 0
      [] f = "speech_pad_ms" -> x.n >= 0
      [] OTHER -> TRUE

\* VadParams(**kw): the supplied values are validated, the others take their default
VadParams(kw) ==
    IF \E f \in DOMAIN kw :
          \/ ~TypeOk(VadParams_type[f], FALSE, kw[f])
          \/ ~VadParams_constraint(f, kw[f])
    THEN ValidationError
    ELSE Ok([f \in Range(VadParams_fields) |->
                IF f \in DOMAIN kw THEN kw[f] ELSE VadParams_default[f]])

----------------------------------------------------------------------------
(* class DiarizationParams *)

DiarizationParams_fields == <<"is_diarize", "hf_token">>

DiarizationParams_type == [is_diarize |-> "bool", hf_token |-> "str"]

DiarizationParams_default == [is_diarize |-> B(FALSE), hf_token |-> S("")]

DiarizationParams(kw) ==
    IF \E f \in DOMAIN kw : ~TypeOk(DiarizationParams_type[f], FALSE, kw[f])
    THEN ValidationError
    ELSE Ok([f \in Range(DiarizationParams_fields) |->
                IF f \in DOMAIN kw THEN kw[f] ELSE DiarizationParams_default[f]])

----------------------------------------------------------------------------
(* class BGMSeparationParams *)

BGMSeparationParams_fields ==
    <<"is_separate_bgm", "model_size", "segment_size", "save_file", "enable_offload">>

BGMSeparationParams_type ==
    [is_separate_bgm |-> "bool", model_size |-> "str", segment_size |-> "int",
     save_file |-> "bool", enable_offload |-> "bool"]

BGMSeparationParams_default ==
    [is_separate_bgm |-> B(FALSE), model_size |-> S("UVR-MDX-NET-Inst_HQ_4"),
     segment_size |-> I(256), save_file |-> B(FALSE), enable_offload |-> B(TRUE)]

BGMSeparationParams_constraint(f, x) ==
    CASE f = "segment_size" -> x.n > 0
      [] OTHER -> TRUE

BGMSeparationParams(kw) ==
    IF \E f \in DOMAIN kw :
          \/ ~TypeOk(BGMSeparationParams_type[f], FALSE, kw[f])
          \/ ~BGMSeparationParams_constraint(f, kw[f])
    THEN ValidationError
    ELSE Ok([f \in Range(BGMSeparationParams_fields) |->
                IF f \in DOMAIN kw THEN kw[f] ELSE BGMSeparationParams_default[f]])

----------------------------------------------------------------------------
(* class WhisperParams *)

WhisperParams_fields ==
    <<"model_size", "lang", "is_translate", "beam_size", "log_prob_threshold",
      "no_speech_threshold", "compute_type", "best_of", "patience",
      "condition_on_previous_text", "prompt_reset_on_temperature", "initial_prompt",
      "temperature", "compression_ratio_threshold", "batch_size", "length_penalty",
      "repetition_penalty", "no_repeat_ngram_size", "prefix", "suppress_blank",
      "suppress_tokens", "max_initial_timestamp", "word_timestamps",
      "prepend_punctuations", "append_punctuations", "max_new_tokens", "chunk_length",
      "hallucination_silence_threshold", "hotwords", "language_detection_threshold",
      "language_detection_segments">>

WhisperParams_type ==
    [model_size |-> "str", lang |-> "str", is_translate |-> "bool", beam_size |-> "int",
     log_prob_threshold |-> "float", no_speech_threshold |-> "float",
     compute_type |-> "str", best_of |-> "int", patience |-> "float",
     condition_on_previous_text |-> "bool", prompt_reset_on_temperature |-> "float",
     initial_prompt |-> "str", temperature |-> "float",
     compression_ratio_threshold |-> "float", batch_size |-> "int",
     length_penalty |-> "float", repetition_penalty |-> "float",
     no_repeat_ngram_size |-> "int", prefix |-> "str", suppress_blank |-> "bool",
     suppress_tokens |-> "str", max_initial_timestamp |-> "float",
     word_timestamps |-> "bool", prepend_punctuations |-> "str",
     append_punctuations |-> "str", max_new_tokens |-> "int", chunk_length |-> "int",
     hallucination_silence_threshold |-> "float", hotwords |-> "str",
     language_detection_threshold |-> "float", language_detection_segments |-> "int"]

\* the fields annotated Optional[...]
WhisperParams_optional ==
    {"lang", "initial_prompt", "prefix", "suppress_tokens", "prepend_punctuations",
     "append_punctuations", "max_new_tokens", "chunk_length",
     "hallucination_silence_threshold", "hotwords", "language_detection_threshold"}

\* (the two punctuation defaults are abbreviated to names)
WhisperParams_default ==
    [model_size |-> S("large-v2"), lang |-> None, is_translate |-> B(FALSE),
     beam_size |-> I(5), log_prob_threshold |-> F(-10), no_speech_threshold |-> F(6),
     compute_type |-> S("float16"), best_of |-> I(5), patience |-> F(10),
     condition_on_previous_text |-> B(TRUE), prompt_reset_on_temperature |-> F(5),
     initial_prompt |-> None, temperature |-> F(0),
     compression_ratio_threshold |-> F(24), batch_size |-> I(24),
     length_penalty |-> F(10), repetition_penalty |-> F(10),
     no_repeat_ngram_size |-> I(0), prefix |-> None, suppress_blank |-> B(TRUE),
     suppress_tokens |-> S("[-1]"), max_initial_timestamp |-> F(0),
     word_timestamps |-> B(FALSE), prepend_punctuations |-> S("prepend-punctuations"),
     append_punctuations |-> S("append-punctuations"), max_new_tokens |-> None,
     chunk_length |-> I(30), hallucination_silence_threshold |-> None,
     hotwords |-> None, language_detection_threshold |-> None,
     language_detection_segments |-> I(1)]

\* the ge/le/gt of each Field
WhisperParams_constraint(f, x) ==
    CASE f = "beam_size" -> x.n >= 1
      [] f = "no_speech_threshold" -> x.n >= 0 /\ x.n <= 10
      [] f = "best_of" -> x.n >= 1
      [] f = "patience" -> x.n > 0
      [] f = "prompt_reset_on_temperature" -> x.n >= 0 /\ x.n <= 10
      [] f = "temperature" -> x.n >= 0
      [] f = "compression_ratio_threshold" -> x.n > 0
      [] f = "batch_size" -> x.n > 0
      [] f = "length_penalty" -> x.n > 0
      [] f = "repetition_penalty" -> x.n > 0
      [] f = "no_repeat_ngram_size" -> x.n >= 0
      [] f = "max_initial_timestamp" -> x.n >= 0
      [] f = "language_detection_segments" -> x.n > 0
      [] OTHER -> TRUE

\* a mutant: the validator returns its input
validate_lang_Identity(x) == x

\* @field_validator('lang')
validate_lang(x) == IF x = AUTOMATIC_DETECTION THEN None ELSE x

\* WhisperParams(**kw): the supplied values are validated (lang by its validator
\* as well), the others take their default
WhisperParams(kw) ==
    IF \E f \in DOMAIN kw :
          \/ ~TypeOk(WhisperParams_type[f], f \in WhisperParams_optional, kw[f])
          \/ ~WhisperParams_constraint(f, kw[f])
    THEN ValidationError
    ELSE Ok([f \in Range(WhisperParams_fields) |->
                IF f \in DOMAIN kw
                THEN (IF f = "lang" THEN validate_lang(kw[f]) ELSE kw[f])
                ELSE WhisperParams_default[f]])

\* model_dump(): the mapping from each field name to the instance's value
to_dict(fields, inst) == [f \in Range(fields) |-> inst[f]]

----------------------------------------------------------------------------
(* class TranscriptionPipelineParams: the four sub-records, by value *)

TranscriptionPipelineParams_fields == <<"whisper", "vad", "diarization", "bgm_separation">>

\* each default_factory is the sub-record's no-argument constructor
TranscriptionPipelineParams_new ==
    [whisper |-> WhisperParams(EmptyDict).val,
     vad |-> VadParams(EmptyDict).val,
     diarization |-> DiarizationParams(EmptyDict).val,
     bgm_separation |-> BGMSeparationParams(EmptyDict).val]

----------------------------------------------------------------------------
(* The inputs of the constructions: per field, values below, on and above the bounds *)

SampleValues(ty, optional, f) ==
    (CASE ty = "bool" -> {B(TRUE), B(FALSE)}
       [] ty = "int" -> {I(-1), I(0), I(11)}
       [] ty = "float" -> {F(-1), F(0), F(11)}
       [] f = "lang" -> {S("en"), AUTOMATIC_DETECTION}
       [] OTHER -> {S("a")})
    \cup (IF optional THEN {None} ELSE {})

ClassNames == {"VadParams", "DiarizationParams", "BGMSeparationParams", "WhisperParams"}

FieldsOf(cls) ==
    CASE cls = "VadParams" -> VadParams_fields
      [] cls = "DiarizationParams" -> DiarizationParams_fields
      [] cls = "BGMSeparationParams" -> BGMSeparationParams_fields
      [] cls = "WhisperParams" -> WhisperParams_fields

TypeOf(cls) ==
    CASE cls = "VadParams" -> VadParams_type
      [] cls = "DiarizationParams" -> DiarizationParams_type
      [] cls = "BGMSeparationParams" -> BGMSeparationParams_type
      [] cls = "WhisperParams" -> WhisperParams_type

DefaultOf(cls) ==
    CASE cls = "VadParams" -> VadParams_default
      [] cls = "DiarizationParams" -> DiarizationParams_default
      [] cls = "BGMSeparationParams" -> BGMSeparationParams_default
      [] cls = "WhisperParams" -> WhisperParams_default

IsOptional(cls, f) == cls = "WhisperParams" /\ f \in WhisperParams_optional

Samples(cls, f) == SampleValues(TypeOf(cls)[f], IsOptional(cls, f), f)

\* one keyword of a call: a field with a sample value, or no keyword
NoPick == <<"", None>>

Picks(cls) ==
    {NoPick} \cup
    (IF cls \in ClassNames
     THEN UNION {{<<f, x>> : x \in Samples(cls, f)} : f \in Range(FieldsOf(cls))}
     ELSE {})

\* the mapping a sequence of keywords makes (a later keyword replaces an earlier one)
KwOf(p) ==
    LET keys == {p[i][1] : i \in {j \in DOMAIN p : p[j] # NoPick}}
    IN  [f \in keys |->
            p[CHOOSE i \in DOMAIN p :
                  p[i][1] = f /\ \A j \in DOMAIN p : j > i => p[j][1] # f][2]]

----------------------------------------------------------------------------
(* SpecRecords: one construction, applied to the arguments drawn by InitRecords *)

InitRecords ==
    /\ \E cls \in ClassNames \cup {"TranscriptionPipelineParams"} :
          \E p \in [1..MaxArgs -> Picks(cls)] : call = [op |-> cls, kw |-> KwOf(p)]
    /\ ret = Pending
    /\ defaults = NoDict
    /\ heap = <<>>
    /\ bundles = <<>>
    /\ nassign = 0

New_VadParams ==
    /\ call.op = "VadParams" /\ ret.st = "pending"
    /\ ret' = VadParams(call.kw)
    /\ UNCHANGED <<call, defaults, heap, bundles, nassign>>

New_DiarizationParams ==
    /\ call.op = "DiarizationParams" /\ ret.st = "pending"
    /\ ret' = DiarizationParams(call.kw)
    /\ UNCHANGED <<call, defaults, heap, bundles, nassign>>

New_BGMSeparationParams ==
    /\ call.op = "BGMSeparationParams" /\ ret.st = "pending"
    /\ ret' = BGMSeparationParams(call.kw)
    /\ UNCHANGED <<call, defaults, heap, bundles, nassign>>

New_WhisperParams ==
    /\ call.op = "WhisperParams" /\ ret.st = "pending"
    /\ ret' = WhisperParams(call.kw)
    /\ UNCHANGED <<call, defaults, heap, bundles, nassign>>

New_TranscriptionPipelineParams ==
    /\ call.op = "TranscriptionPipelineParams" /\ ret.st = "pending"
    /\ ret' = Ok(TranscriptionPipelineParams_new)
    /\ UNCHANGED <<call, defaults, heap, bundles, nassign>>

NextRecords ==
    \/ New_VadParams
    \/ New_DiarizationParams
    \/ New_BGMSeparationParams
    \/ New_WhisperParams
    \/ New_TranscriptionPipelineParams

SpecRecords == InitRecords /\ [][NextRecords]_vars

----------------------------------------------------------------------------
(* Claims about the constructions (SpecRecords) *)

\* the bounds as the records declare them: is x within the bound declared for field f
\* of class cls (TRUE for a field with no bound)
DeclaredBound(cls, f, x) ==
    CASE cls = "VadParams" /\ f = "threshold" -> 0 <= x.n /\ x.n <= 10
      [] cls = "VadParams" /\ f \in {"min_speech_duration_ms", "min_silence_duration_ms",
                                      "speech_pad_ms"} -> x.n >= 0
      [] cls = "VadParams" /\ f = "max_speech_duration_s" -> x.n > 0
      [] cls = "BGMSeparationParams" /\ f = "segment_size" -> x.n > 0
      [] cls = "WhisperParams" /\ f \in {"beam_size", "best_of"} -> x.n >= 1
      [] cls = "WhisperParams" /\ f \in {"no_speech_threshold",
                                          "prompt_reset_on_temperature"} ->
            0 <= x.n /\ x.n <= 10
      [] cls = "WhisperParams" /\ f \in {"temperature", "no_repeat_ngram_size",
                                          "max_initial_timestamp"} -> x.n >= 0
      [] cls = "WhisperParams" /\ f \in {"patience", "compression_ratio_threshold",
                                          "batch_size", "length_penalty",
                                          "repetition_penalty",
                                          "language_detection_segments"} -> x.n > 0
      [] OTHER -> TRUE

WithinBounds(cls, r) == \A f \in DOMAIN r : DeclaredBound(cls, f, r[f])

\* C1: a construction of VadParams, BGMSeparationParams or WhisperParams that is
\* given a value outside a declared bound fails with a validation error and yields
\* no record, and every record a construction yields satisfies every declared bound.
C1_ConstructionValidated ==
    (call.op \in {"VadParams", "BGMSeparationParams", "WhisperParams"}
        /\ ret.st # "pending") =>
    /\ (~WithinBounds(call.op, call.kw)) => ret.st = "error"
    /\ ret.st = "ok" => (DOMAIN ret.val = Range(FieldsOf(call.op))
                          /\ WithinBounds(call.op, ret.val))

\* a construction given threshold 1.1 has been refused
C1_Witness ==
    /\ call.op = "VadParams"
    /\ "threshold" \in DOMAIN call.kw
    /\ call.kw["threshold"] = F(11)
    /\ ret.st = "error"

\* C6: a record constructed with no arguments holds the declared default of every
\* field and satisfies every declared bound; a no-argument
\* TranscriptionPipelineParams holds four such default sub-records.
C6_NoArgumentDefaults ==
    (ret.st # "pending" /\ DOMAIN call.kw = {}) =>
    /\ ret.st = "ok"
    /\ call.op \in ClassNames =>
          /\ ret.val = DefaultOf(call.op)
          /\ WithinBounds(call.op, ret.val)
    /\ call.op = "VadParams" =>
          ret.val["threshold"] = F(5) /\ ret.val["max_speech_duration_s"] = F(Inf)
    /\ call.op = "BGMSeparationParams" => ret.val["segment_size"] = I(256)
    /\ call.op = "WhisperParams" =>
          /\ ret.val["beam_size"] = I(5)
          /\ ret.val["no_repeat_ngram_size"] = I(0)
          /\ ret.val["temperature"] = F(0)
    /\ call.op = "TranscriptionPipelineParams" =>
          /\ DOMAIN ret.val = Range(TranscriptionPipelineParams_fields)
          /\ ret.val["whisper"] = WhisperParams_default
          /\ ret.val["vad"] = VadParams_default
          /\ ret.val["diarization"] = DiarizationParams_default
          /\ ret.val["bgm_separation"] = BGMSeparationParams_default
          /\ WithinBounds("WhisperParams", ret.val["whisper"])
          /\ WithinBounds("VadParams", ret.val["vad"])
          /\ WithinBounds("BGMSeparationParams", ret.val["bgm_separation"])

\* a no-argument TranscriptionPipelineParams has been constructed
C6_Witness ==
    /\ call.op = "TranscriptionPipelineParams"
    /\ DOMAIN call.kw = {}
    /\ ret.st = "ok"

\* C10: WhisperParams constructed with lang the AUTOMATIC_DETECTION sentinel has
\* lang None, constructed with any other lang has that lang, so no constructed
\* WhisperParams has lang equal to the sentinel; rebuilding a record from its own
\* to_dict() leaves lang unchanged.
C10_LangNormalised ==
    (call.op = "WhisperParams" /\ ret.st = "ok") =>
    /\ "lang" \in DOMAIN call.kw =>
          ret.val["lang"] = (IF call.kw["lang"] = AUTOMATIC_DETECTION
                             THEN None ELSE call.kw["lang"])
    /\ ret.val["lang"] # AUTOMATIC_DETECTION
    /\ LET again == WhisperParams(to_dict(WhisperParams_fields, ret.val))
       IN  again.st = "ok" /\ again.val["lang"] = ret.val["lang"]

\* a WhisperParams given the sentinel has been constructed
C10_Witness ==
    /\ call.op = "WhisperParams"
    /\ "lang" \in DOMAIN call.kw
    /\ call.kw["lang"] = AUTOMATIC_DETECTION
    /\ ret.st = "ok"
    /\ ret.val["lang"] = None

----------------------------------------------------------------------------
(* The form builders.  A widget is the gradio component with the arguments the  *)
(* builder gave it; key names where its value is read from: the key looked up   *)
(* in defaults, or the builder's argument for the Device dropdowns.  choices is *)
(* <<>> except for a Dropdown; visible is gradio's default True unless given.   *)

Widget(kind, label, key, value) ==
    [kind |-> kind, label |-> label, key |-> key, value |-> value,
     choices |-> <<>>, visible |-> TRUE]

Dropdown(label, key, choices, value) ==
    [kind |-> "Dropdown", label |-> label, key |-> key, value |-> value,
     choices |-> choices, visible |-> TRUE]

NumberVisible(label, key, value, visible) ==
    [kind |-> "Number", label |-> label, key |-> key, value |-> value,
     choices |-> <<>>, visible |-> visible]

\* Python's truth value of x
Truthy(x) ==
    CASE x.t = "none" -> FALSE
      [] x.t \in {"bool", "int", "float"} -> x.n # 0
      [] x.t = "str" -> x.s # ""
      [] OTHER -> TRUE

\* defaults = defaults or {}
OrEmptyDict(d) == IF d.t = "none" \/ DOMAIN d.map = {} THEN EmptyDict ELSE d.map

\* defaults = {} if defaults is None else defaults
NoneToEmptyDict(d) == IF d.t = "none" THEN EmptyDict ELSE d.map

\* <list literal> if arg is None else arg
ListOr(arg, literal) == IF arg.t = "none" THEN literal ELSE arg.items

\* VadParams.to_gradio_inputs(defaults)
VadParams_to_gradio_inputs(d0) ==
    LET d == OrEmptyDict(d0)
        cls == VadParams_default
    IN  << Widget("Checkbox", "Enable Silero VAD Filter", "vad_filter",
                  DictGet(d, "vad_filter", cls.vad_filter)),
           Widget("Slider", "Speech Threshold", "threshold",
                  DictGet(d, "threshold", cls.threshold)),
           Widget("Number", "Minimum Speech Duration (ms)", "min_speech_duration_ms",
                  DictGet(d, "min_speech_duration_ms", cls.min_speech_duration_ms)),
           Widget("Number", "Maximum Speech Duration (s)", "max_speech_duration_s",
                  DictGet(d, "max_speech_duration_s", cls.max_speech_duration_s)),
           Widget("Number", "Minimum Silence Duration (ms)", "min_silence_duration_ms",
                  DictGet(d, "min_silence_duration_ms", cls.min_silence_duration_ms)),
           Widget("Number", "Speech Padding (ms)", "speech_pad_ms",
                  DictGet(d, "speech_pad_ms", cls.speech_pad_ms)) >>

\* DiarizationParams.to_gradio_inputs(defaults, available_devices, device)
DiarizationParams_to_gradio_inputs(d0, available_devices, device) ==
    LET d == OrEmptyDict(d0)
        cls == DiarizationParams_default
    IN  << Widget("Checkbox", "Enable Diarization", "is_diarize",
                  DictGet(d, "is_diarize", cls.is_diarize)),
           Widget("Textbox", "HuggingFace Token", "hf_token",
                  DictGet(d, "hf_token", cls.hf_token)),
           Dropdown("Device", "device",
                    ListOr(available_devices, <<S("cpu"), S("cuda")>>),
                    IF device = None THEN S("cuda") ELSE device) >>

\* BGMSeparationParams.to_gradio_input(defaults, available_devices, device,
\* available_models)
BGMSeparationParams_to_gradio_input(d0, available_devices, device, available_models) ==
    LET d == OrEmptyDict(d0)
        cls == BGMSeparationParams_default
    IN  << Widget("Checkbox", "Enable Background Music Remover Filter", "is_separate_bgm",
                  DictGet(d, "is_separate_bgm", cls.is_separate_bgm)),
           Dropdown("Device", "device",
                    ListOr(available_devices, <<S("cpu"), S("cuda")>>),
                    IF device = None THEN S("cuda") ELSE device),
           Dropdown("Model", "model_size",
                    ListOr(available_models,
                           <<S("UVR-MDX-NET-Inst_HQ_4"), S("UVR-MDX-NET-Inst_3")>>),
                    DictGet(d, "model_size", cls.model_size)),
           Widget("Number", "Segment Size", "segment_size",
                  DictGet(d, "segment_size", cls.segment_size)),
           Widget("Checkbox", "Save separated files to output", "save_file",
                  DictGet(d, "save_file", cls.save_file)),
           Widget("Checkbox", "Offload sub model after removing background music",
                  "enable_offload", DictGet(d, "enable_offload", cls.enable_offload)) >>

\* a mutant: the basic widgets with Language ahead of Model Size
WhisperParams_basic_inputs_LanguageFirst(d) ==
    LET cls == WhisperParams_default
    IN  << Widget("Textbox", "Language", "lang", DictGet(d, "lang", cls.lang)),
           Dropdown("Model Size", "model_size",
                    <<S("small"), S("medium"), S("large-v2")>>,
                    DictGet(d, "model_size", cls.model_size)),
           Widget("Checkbox", "Translate to English", "is_translate",
                  DictGet(d, "is_translate", cls.is_translate)) >>

\* the three widgets added when only_advanced is false
WhisperParams_basic_inputs(d) ==
    LET cls == WhisperParams_default
    IN  << Dropdown("Model Size", "model_size",
                    <<S("small"), S("medium"), S("large-v2")>>,
                    DictGet(d, "model_size", cls.model_size)),
           Widget("Textbox", "Language", "lang", DictGet(d, "lang", cls.lang)),
           Widget("Checkbox", "Translate to English", "is_translate",
                  DictGet(d, "is_translate", cls.is_translate)) >>

\* the widgets every call adds; Compute Type falls back on the compute_type argument
WhisperParams_common_inputs(d, available_compute_types, compute_type) ==
    LET cls == WhisperParams_default
    IN  << Widget("Number", "Beam Size", "beam_size",
                  DictGet(d, "beam_size", cls.beam_size)),
           Widget("Number", "Log Probability Threshold", "log_prob_threshold",
                  DictGet(d, "log_prob_threshold", cls.log_prob_threshold)),
           Widget("Number", "No Speech Threshold", "no_speech_threshold",
                  DictGet(d, "no_speech_threshold", cls.no_speech_threshold)),
           Dropdown("Compute Type", "compute_type",
                    ListOr(available_compute_types,
                           <<S("float16"), S("int8"), S("int16")>>),
                    DictGet(d, "compute_type", compute_type)),
           Widget("Number", "Best Of", "best_of", DictGet(d, "best_of", cls.best_of)),
           Widget("Number", "Patience", "patience", DictGet(d, "patience", cls.patience)),
           Widget("Checkbox", "Condition On Previous Text", "condition_on_previous_text",
                  DictGet(d, "condition_on_previous_text",
                          cls.condition_on_previous_text)),
           Widget("Slider", "Prompt Reset On Temperature", "prompt_reset_on_temperature",
                  DictGet(d, "prompt_reset_on_temperature",
                          cls.prompt_reset_on_temperature)),
           Widget("Textbox", "Initial Prompt", "initial_prompt",
                  DictGet(d, "initial_prompt", cls.initial_prompt)),
           Widget("Slider", "Temperature", "temperature",
                  DictGet(d, "temperature", cls.temperature)),
           Widget("Number", "Compression Ratio Threshold", "compression_ratio_threshold",
                  DictGet(d, "compression_ratio_threshold",
                          cls.compression_ratio_threshold)) >>

\* the widgets added for WhisperImpl.FASTER_WHISPER; Length Penalty is given
\* visible=whisper_type=="faster_whisper"
WhisperParams_faster_whisper_inputs(d, whisper_type) ==
    LET cls == WhisperParams_default
    IN  << NumberVisible("Length Penalty", "length_penalty",
                         DictGet(d, "length_penalty", cls.length_penalty),
                         whisper_type = S("faster_whisper")),
           Widget("Number", "Repetition Penalty", "repetition_penalty",
                  DictGet(d, "repetition_penalty", cls.repetition_penalty)),
           Widget("Number", "No Repeat N-gram Size", "no_repeat_ngram_size",
                  DictGet(d, "no_repeat_ngram_size", cls.no_repeat_ngram_size)),
           Widget("Textbox", "Prefix", "prefix", DictGet(d, "prefix", cls.prefix)),
           Widget("Checkbox", "Suppress Blank", "suppress_blank",
                  DictGet(d, "suppress_blank", cls.suppress_blank)),
           Widget("Textbox", "Suppress Tokens", "suppress_tokens",
                  DictGet(d, "suppress_tokens", cls.suppress_tokens)),
           Widget("Number", "Max Initial Timestamp", "max_initial_timestamp",
                  DictGet(d, "max_initial_timestamp", cls.max_initial_timestamp)),
           Widget("Checkbox", "Word Timestamps", "word_timestamps",
                  DictGet(d, "word_timestamps", cls.word_timestamps)),
           Widget("Textbox", "Prepend Punctuations", "prepend_punctuations",
                  DictGet(d, "prepend_punctuations", cls.prepend_punctuations)),
           Widget("Textbox", "Append Punctuations", "append_punctuations",
                  DictGet(d, "append_punctuations", cls.append_punctuations)),
           Widget("Number", "Max New Tokens", "max_new_tokens",
                  DictGet(d, "max_new_tokens", cls.max_new_tokens)),
           Widget("Number", "Chunk Length (s)", "chunk_length",
                  DictGet(d, "chunk_length", cls.chunk_length)),
           Widget("Number", "Hallucination Silence Threshold (sec)",
                  "hallucination_silence_threshold",
                  DictGet(d, "hallucination_silence_threshold",
                          cls.hallucination_silence_threshold)),
           Widget("Textbox", "Hotwords", "hotwords", DictGet(d, "hotwords", cls.hotwords)),
           Widget("Number", "Language Detection Threshold", "language_detection_threshold",
                  DictGet(d, "language_detection_threshold",
                          cls.language_detection_threshold)),
           Widget("Number", "Language Detection Segments", "language_detection_segments",
                  DictGet(d, "language_detection_segments",
                          cls.language_detection_segments)) >>

\* a mutant: Batch Size reads the beam_size key, which Beam Size already reads
WhisperParams_insanely_fast_inputs_WrongKey(d, whisper_type) ==
    LET cls == WhisperParams_default
    IN  << NumberVisible("Batch Size", "beam_size",
                         DictGet(d, "beam_size", cls.beam_size),
                         whisper_type = S("insanely_fast_whisper")) >>

\* the widget added for WhisperImpl.INSANELY_FAST_WHISPER; Batch Size is given
\* visible=whisper_type == "insanely_fast_whisper"
WhisperParams_insanely_fast_inputs(d, whisper_type) ==
    LET cls == WhisperParams_default
    IN  << NumberVisible("Batch Size", "batch_size",
                         DictGet(d, "batch_size", cls.batch_size),
                         whisper_type = S("insanely_fast_whisper")) >>

\* a mutant: whisper_type=None is left as it is, not taken as FASTER_WHISPER
WhisperParams_to_gradio_inputs_NoneKept(d0, only_advanced, whisper_type0, available_compute_types, compute_type) ==
    LET d == NoneToEmptyDict(d0)
    IN  (IF ~Truthy(only_advanced) THEN WhisperParams_basic_inputs(d) ELSE <<>>)
        \o WhisperParams_common_inputs(d, available_compute_types, compute_type)
        \o (IF whisper_type0 = FASTER_WHISPER
            THEN WhisperParams_faster_whisper_inputs(d, whisper_type0) ELSE <<>>)
        \o (IF whisper_type0 = INSANELY_FAST_WHISPER
            THEN WhisperParams_insanely_fast_inputs(d, whisper_type0) ELSE <<>>)

\* WhisperParams.to_gradio_inputs(defaults, only_advanced, whisper_type,
\* available_compute_types, compute_type)
WhisperParams_to_gradio_inputs(d0, only_advanced, whisper_type0, available_compute_types, compute_type) ==
    LET d == NoneToEmptyDict(d0)
        whisper_type == IF whisper_type0 = None THEN FASTER_WHISPER ELSE whisper_type0
    IN  (IF ~Truthy(only_advanced) THEN WhisperParams_basic_inputs(d) ELSE <<>>)
        \o WhisperParams_common_inputs(d, available_compute_types, compute_type)
        \o (IF whisper_type = FASTER_WHISPER
            THEN WhisperParams_faster_whisper_inputs(d, whisper_type) ELSE <<>>)
        \o (IF whisper_type = INSANELY_FAST_WHISPER
            THEN WhisperParams_insanely_fast_inputs(d, whisper_type) ELSE <<>>)

----------------------------------------------------------------------------
(* SpecForms: one form-builder call, applied to the arguments drawn by InitForms *)

FormCall(op, available_devices, device, available_models, only_advanced, whisper_type, available_compute_types, compute_type) ==
    [op |-> op, available_devices |-> available_devices, device |-> device,
     available_models |-> available_models, only_advanced |-> only_advanced,
     whisper_type |-> whisper_type, available_compute_types |-> available_compute_types,
     compute_type |-> compute_type]

DeviceLists == {NoList, L(<<>>), L(<<S("cpu")>>)}
Devices == {None, S("cpu"), S("cuda")}
ModelLists == {NoList, L(<<S("UVR-MDX-NET-Inst_3")>>)}
OnlyAdvanced == {B(TRUE), B(FALSE), None}
WhisperTypes == {None, WHISPER, FASTER_WHISPER, INSANELY_FAST_WHISPER}
ComputeTypeLists == {NoList, L(<<S("int8")>>)}
ComputeTypes == {None, S("float16"), S("int8")}

VadFormCalls ==
    {FormCall("VadParams.to_gradio_inputs", NoList, None, NoList, None, None, NoList, None)}

DiarizationFormCalls ==
    {FormCall("DiarizationParams.to_gradio_inputs", ad, dev, NoList, None, None, NoList, None) :
        ad \in DeviceLists, dev \in Devices}

BGMFormCalls ==
    {FormCall("BGMSeparationParams.to_gradio_input", ad, dev, am, None, None, NoList, None) :
        ad \in DeviceLists, dev \in Devices, am \in ModelLists}

WhisperFormCalls ==
    {FormCall("WhisperParams.to_gradio_inputs", NoList, None, NoList, oa, wt, act, ct) :
        oa \in OnlyAdvanced, wt \in WhisperTypes, act \in ComputeTypeLists,
        ct \in ComputeTypes}

FormCalls == VadFormCalls \cup DiarizationFormCalls \cup BGMFormCalls \cup WhisperFormCalls

\* the record class a form builder belongs to
ClassOfForm(op) ==
    CASE op = "VadParams.to_gradio_inputs" -> "VadParams"
      [] op = "DiarizationParams.to_gradio_inputs" -> "DiarizationParams"
      [] op = "BGMSeparationParams.to_gradio_input" -> "BGMSeparationParams"
      [] op = "WhisperParams.to_gradio_inputs" -> "WhisperParams"

InitForms ==
    /\ call \in FormCalls
    /\ \/ defaults = NoDict
       \/ \E p \in [1..MaxOverrides -> Picks(ClassOfForm(call.op))] :
             defaults = D(KwOf(p))
    /\ ret = Pending
    /\ heap = <<>>
    /\ bundles = <<>>
    /\ nassign = 0

\* the builders only read the mapping (dict.get)
Form_VadParams(c) ==
    /\ c.op = "VadParams.to_gradio_inputs"
    /\ call' = c
    /\ ret' = Ok(VadParams_to_gradio_inputs(defaults))
    /\ UNCHANGED <<defaults, heap, bundles, nassign>>

Form_DiarizationParams(c) ==
    /\ c.op = "DiarizationParams.to_gradio_inputs"
    /\ call' = c
    /\ ret' = Ok(DiarizationParams_to_gradio_inputs(defaults, c.available_devices,
                                                    c.device))
    /\ UNCHANGED <<defaults, heap, bundles, nassign>>

Form_BGMSeparationParams(c) ==
    /\ c.op = "BGMSeparationParams.to_gradio_input"
    /\ call' = c
    /\ ret' = Ok(BGMSeparationParams_to_gradio_input(defaults, c.available_devices,
                                                     c.device, c.available_models))
    /\ UNCHANGED <<defaults, heap, bundles, nassign>>

Form_WhisperParams(c) ==
    /\ c.op = "WhisperParams.to_gradio_inputs"
    /\ call' = c
    /\ ret' = Ok(WhisperParams_to_gradio_inputs(defaults, c.only_advanced,
                                                c.whisper_type,
                                                c.available_compute_types,
                                                c.compute_type))
    /\ UNCHANGED <<defaults, heap, bundles, nassign>>

Call_VadParams_to_gradio_inputs == ret.st = "pending" /\ Form_VadParams(call)

Call_DiarizationParams_to_gradio_inputs == ret.st = "pending" /\ Form_DiarizationParams(call)

Call_BGMSeparationParams_to_gradio_input == ret.st = "pending" /\ Form_BGMSeparationParams(call)

Call_WhisperParams_to_gradio_inputs == ret.st = "pending" /\ Form_WhisperParams(call)

NextForms ==
    \/ Call_VadParams_to_gradio_inputs
    \/ Call_DiarizationParams_to_gradio_inputs
    \/ Call_BGMSeparationParams_to_gradio_input
    \/ Call_WhisperParams_to_gradio_inputs

SpecForms == InitForms /\ [][NextForms]_vars

----------------------------------------------------------------------------
(* Claims about the form builders (SpecForms) *)

IsFormOp(op) ==
    op \in {"VadParams.to_gradio_inputs", "DiarizationParams.to_gradio_inputs",
            "BGMSeparationParams.to_gradio_input", "WhisperParams.to_gradio_inputs"}

FormReturned == IsFormOp(call.op) /\ ret.st = "ok"

FormClass == ClassOfForm(call.op)

\* what the builder of the call returns when handed the defaults d
FormOf(c, d) ==
    CASE c.op = "VadParams.to_gradio_inputs" -> VadParams_to_gradio_inputs(d)
      [] c.op = "DiarizationParams.to_gradio_inputs" ->
            DiarizationParams_to_gradio_inputs(d, c.available_devices, c.device)
      [] c.op = "BGMSeparationParams.to_gradio_input" ->
            BGMSeparationParams_to_gradio_input(d, c.available_devices, c.device,
                                                c.available_models)
      [] c.op = "WhisperParams.to_gradio_inputs" ->
            WhisperParams_to_gradio_inputs(d, c.only_advanced, c.whisper_type,
                                           c.available_compute_types, c.compute_type)

\* the widgets of the returned list that stand for a declared field of the record
FieldWidgets == {i \in 1..Len(ret.val) : ret.val[i].key \in Range(FieldsOf(FormClass))}

\* C2: every widget of a declared field holds defaults[f] when the defaults mapping
\* has the key f, and otherwise the default the record declares for f (so with no
\* override Compute Type holds "float16"); defaults=None behaves as an empty mapping.
C2_PrePopulated ==
    FormReturned =>
    /\ \A i \in FieldWidgets :
          LET f == ret.val[i].key
          IN  ret.val[i].value =
                 (IF f \in DOMAIN defaults.map
                  THEN defaults.map[f] ELSE DefaultOf(FormClass)[f])
    /\ defaults.t = "none" => ret.val = FormOf(call, D(EmptyDict))

\* C3: the returned list holds exactly one widget for each declared field of the
\* record and no other widget (6, 2, 5 and 31 widgets).
C3_OneToOne ==
    FormReturned =>
    /\ Len(ret.val) = Len(FieldsOf(FormClass))
    /\ {ret.val[i].key : i \in 1..Len(ret.val)} = Range(FieldsOf(FormClass))

\* C3 as amended: no field has two widgets; the only widget that stands for no
\* declared field is the Device dropdown of the diarization and BGM forms; the VAD
\* form has its 6 fields, the diarization form its 2 fields and Device, the BGM
\* form its 5 fields and Device, and the Whisper form a part of the 31 fields:
\* between 11 and 30 widgets, never batch_size together with length_penalty.
C3_FieldsAtMostOnce ==
    FormReturned =>
    LET n == Len(ret.val)
        keys == {ret.val[i].key : i \in 1..n}
        fields == Range(FieldsOf(FormClass))
    IN  /\ \A i, j \in 1..n : ret.val[i].key = ret.val[j].key => i = j
        /\ \A i \in 1..n : ret.val[i].key \notin fields =>
              /\ ret.val[i].label = "Device"
              /\ ret.val[i].kind = "Dropdown"
              /\ FormClass \in {"DiarizationParams", "BGMSeparationParams"}
        /\ FormClass = "VadParams" => n = 6 /\ keys = fields
        /\ FormClass = "DiarizationParams" => n = 3 /\ keys = fields \cup {"device"}
        /\ FormClass = "BGMSeparationParams" => n = 6 /\ keys = fields \cup {"device"}
        /\ FormClass = "WhisperParams" =>
              /\ 11 <= n /\ n <= 30
              /\ ~({"batch_size", "length_penalty"} \subseteq keys)

\* a Whisper form with the basic and the faster-whisper widgets has been built
C3_Witness ==
    /\ FormReturned
    /\ call.op = "WhisperParams.to_gradio_inputs"
    /\ call.only_advanced = B(FALSE)
    /\ call.whisper_type = FASTER_WHISPER
    /\ Len(ret.val) = 30

\* C8: every dropdown with a non-empty list of choices has a pre-selected value that
\* is one of its choices.
C8_DropdownValueInChoices ==
    FormReturned =>
    \A i \in 1..Len(ret.val) :
        (ret.val[i].kind = "Dropdown" /\ ret.val[i].choices # <<>>) =>
            ret.val[i].value \in Range(ret.val[i].choices)

\* C9: every widget of the list WhisperParams.to_gradio_inputs returns is visible.
C9_WidgetsVisible ==
    (FormReturned /\ call.op = "WhisperParams.to_gradio_inputs") =>
    \A i \in 1..Len(ret.val) : ret.val[i].visible

\* the labels of the returned widgets, in the order of the list
Labels(ws) == [i \in 1..Len(ws) |-> ws[i].label]

\* the list without its first n widgets
Drop(ws, n) == SubSeq(ws, n + 1, Len(ws))

WhisperFormReturned == FormReturned /\ call.op = "WhisperParams.to_gradio_inputs"

BasicLabels == <<"Model Size", "Language", "Translate to English">>

CommonLabels ==
    <<"Beam Size", "Log Probability Threshold", "No Speech Threshold", "Compute Type",
      "Best Of", "Patience", "Condition On Previous Text", "Prompt Reset On Temperature",
      "Initial Prompt", "Temperature", "Compression Ratio Threshold">>

FasterWhisperLabels ==
    <<"Length Penalty", "Repetition Penalty", "No Repeat N-gram Size", "Prefix",
      "Suppress Blank", "Suppress Tokens", "Max Initial Timestamp", "Word Timestamps",
      "Prepend Punctuations", "Append Punctuations", "Max New Tokens", "Chunk Length (s)",
      "Hallucination Silence Threshold (sec)", "Hotwords",
      "Language Detection Threshold", "Language Detection Segments">>

\* the number of basic widgets at the head of the returned list
BasicCount == IF call.only_advanced = B(TRUE) THEN 0 ELSE 3

\* C11: after the basic widgets (if any) the Whisper form holds the 11 common
\* widgets Beam Size .. Compression Ratio Threshold in that order, then the 16
\* widgets Length Penalty .. Language Detection Segments exactly when whisper_type
\* is FASTER_WHISPER or None, then Batch Size exactly when whisper_type is
\* INSANELY_FAST_WHISPER, and nothing else; WHISPER adds neither group;
\* whisper_type=None returns the list FASTER_WHISPER returns; no list holds both
\* Length Penalty and Batch Size.
C11_WidgetsByWhisperType ==
    WhisperFormReturned =>
    LET rest == Labels(Drop(ret.val, BasicCount))
        all == Range(Labels(ret.val))
        wt == call.whisper_type
    IN  /\ Len(rest) >= 11
        /\ SubSeq(rest, 1, 11) = CommonLabels
        /\ wt \in {FASTER_WHISPER, None} <=> Drop(rest, 11) = FasterWhisperLabels
        /\ wt \in {FASTER_WHISPER, None} <=> Range(FasterWhisperLabels) \cap all # {}
        /\ wt = INSANELY_FAST_WHISPER <=> Drop(rest, 11) = <<"Batch Size">>
        /\ wt = INSANELY_FAST_WHISPER <=> "Batch Size" \in all
        /\ wt = WHISPER => Len(rest) = 11
        /\ wt = None =>
              ret.val = FormOf([call EXCEPT !.whisper_type = FASTER_WHISPER], defaults)
        /\ ~({"Length Penalty", "Batch Size"} \subseteq all)

\* a Whisper form has been built for INSANELY_FAST_WHISPER and ends with Batch Size
C11_Witness ==
    /\ WhisperFormReturned
    /\ call.whisper_type = INSANELY_FAST_WHISPER
    /\ ret.val[Len(ret.val)].label = "Batch Size"

\* a Whisper form has been built with whisper_type=None and holds Length Penalty
C11_WitnessNone ==
    /\ WhisperFormReturned
    /\ call.whisper_type = None
    /\ "Length Penalty" \in Range(Labels(ret.val))

\* what the call returns when only_advanced is set to v and nothing else changes
WithOnlyAdvanced(v) == FormOf([call EXCEPT !.only_advanced = B(v)], defaults)

\* C12: with only_advanced false the Whisper form starts with Model Size, Language
\* and Translate to English, in that order, followed by exactly the list the same
\* call returns with only_advanced true; with only_advanced true the list starts
\* with Beam Size and holds none of those three widgets; the two lists differ by
\* that 3-widget prefix for every whisper_type.  (only_advanced=None is falsy and
\* returns the list only_advanced=False returns.)
C12_OnlyAdvancedPrefix ==
    WhisperFormReturned =>
    LET basic == {i \in 1..Len(ret.val) :
                     \/ ret.val[i].label \in Range(BasicLabels)
                     \/ ret.val[i].key \in {"model_size", "lang", "is_translate"}}
    IN  /\ call.only_advanced = B(FALSE) =>
              /\ Len(ret.val) = Len(WithOnlyAdvanced(TRUE)) + 3
              /\ Labels(SubSeq(ret.val, 1, 3)) = BasicLabels
              /\ Drop(ret.val, 3) = WithOnlyAdvanced(TRUE)
              /\ basic = 1..3
        /\ call.only_advanced = B(TRUE) =>
              /\ basic = {}
              /\ ret.val[1].label = "Beam Size"
              /\ WithOnlyAdvanced(FALSE) =
                    SubSeq(WithOnlyAdvanced(FALSE), 1, 3) \o ret.val
              /\ Labels(SubSeq(WithOnlyAdvanced(FALSE), 1, 3)) = BasicLabels
        /\ call.only_advanced = None => ret.val = WithOnlyAdvanced(FALSE)

\* a Whisper form has been built with only_advanced false for INSANELY_FAST_WHISPER:
\* the three basic widgets, the common widgets and Batch Size
C12_Witness ==
    /\ WhisperFormReturned
    /\ call.only_advanced = B(FALSE)
    /\ call.whisper_type = INSANELY_FAST_WHISPER
    /\ ret.val[1].label = "Model Size"
    /\ Len(ret.val) = 15

----------------------------------------------------------------------------
(* Spec: bundles on the heap.  A TranscriptionPipelineParams names its four    *)
(* sub-record instances; instances are mutable (the records set no             *)
(* validate_assignment, so an assignment is not validated).                    *)

\* the record class of each sub-record of the bundle
SubClass ==
    [whisper |-> "WhisperParams", vad |-> "VadParams",
     diarization |-> "DiarizationParams", bgm_separation |-> "BGMSeparationParams"]

SubNames == Range(TranscriptionPipelineParams_fields)

\* a mutant: one set of default instances, made once and shared by every bundle
default_factory_Shared(h) ==
    IF Len(h) = 0
    THEN [heap |-> <<TranscriptionPipelineParams_new.whisper,
                     TranscriptionPipelineParams_new.vad,
                     TranscriptionPipelineParams_new.diarization,
                     TranscriptionPipelineParams_new.bgm_separation>>,
          bundle |-> [whisper |-> 1, vad |-> 2, diarization |-> 3, bgm_separation |-> 4]]
    ELSE [heap |-> h,
          bundle |-> [whisper |-> 1, vad |-> 2, diarization |-> 3, bgm_separation |-> 4]]

\* Field(default_factory=...): each new bundle gets four new instances
default_factory(h) ==
    [heap |-> h \o <<TranscriptionPipelineParams_new.whisper,
                     TranscriptionPipelineParams_new.vad,
                     TranscriptionPipelineParams_new.diarization,
                     TranscriptionPipelineParams_new.bgm_separation>>,
     bundle |-> [whisper |-> Len(h) + 1, vad |-> Len(h) + 2,
                 diarization |-> Len(h) + 3, bgm_separation |-> Len(h) + 4]]

\* a mutant: the diarization entry is built from self.vad
TranscriptionPipelineParams_to_dict_VadTwice(h, b) ==
    [whisper |-> to_dict(WhisperParams_fields, h[b.whisper]),
     vad |-> to_dict(VadParams_fields, h[b.vad]),
     diarization |-> to_dict(VadParams_fields, h[b.vad]),
     bgm_separation |-> to_dict(BGMSeparationParams_fields, h[b.bgm_separation])]

\* TranscriptionPipelineParams.to_dict of the bundle b over the heap h
TranscriptionPipelineParams_to_dict(h, b) ==
    [whisper |-> to_dict(WhisperParams_fields, h[b.whisper]),
     vad |-> to_dict(VadParams_fields, h[b.vad]),
     diarization |-> to_dict(DiarizationParams_fields, h[b.diarization]),
     bgm_separation |-> to_dict(BGMSeparationParams_fields, h[b.bgm_separation])]

\* [value for key, value in d.items()]: the values in declaration order
DictValues(fields, d) == [i \in 1..Len(fields) |-> d[fields[i]]]

\* TranscriptionPipelineParams.as_list of the bundle b over the heap h;
\* diarization_list is built from self.vad
TranscriptionPipelineParams_as_list(h, b) ==
    LET whisper_list == DictValues(WhisperParams_fields,
                                   to_dict(WhisperParams_fields, h[b.whisper]))
        vad_list == DictValues(VadParams_fields, to_dict(VadParams_fields, h[b.vad]))
        diarization_list == DictValues(VadParams_fields,
                                       to_dict(VadParams_fields, h[b.vad]))
        bgm_sep_list == DictValues(BGMSeparationParams_fields,
                                   to_dict(BGMSeparationParams_fields,
                                           h[b.bgm_separation]))
    IN  whisper_list \o vad_list \o diarization_list \o bgm_sep_list

\* the fields a caller assigns in the model, per sub-record
AssignFields ==
    [whisper |-> {"lang"}, vad |-> {"threshold"},
     diarization |-> {"is_diarize"}, bgm_separation |-> {"segment_size"}]

\* the mapping the caller of Spec holds: it overrides a field of each form
CallerDefaults ==
    D([threshold |-> F(0), is_diarize |-> B(TRUE), segment_size |-> I(11),
       beam_size |-> I(11)])

\* the form-builder calls of Spec: the optional arguments left at their defaults
DefaultFormCalls ==
    {FormCall("VadParams.to_gradio_inputs", NoList, None, NoList, None, None, NoList, None),
     FormCall("DiarizationParams.to_gradio_inputs", NoList, None, NoList, None, None,
              NoList, None),
     FormCall("BGMSeparationParams.to_gradio_input", NoList, None, NoList, None, None,
              NoList, None),
     FormCall("WhisperParams.to_gradio_inputs", NoList, None, NoList, B(TRUE), None,
              NoList, None)}

Init ==
    /\ call = [op |-> "none"]
    /\ ret = Pending
    /\ defaults = CallerDefaults
    /\ heap = <<>>
    /\ bundles = <<>>
    /\ nassign = 0

\* TranscriptionPipelineParams()
NewBundle ==
    /\ Len(bundles) < MaxBundles
    /\ LET new == default_factory(heap)
       IN  /\ heap' = new.heap
           /\ bundles' = Append(bundles, new.bundle)
    /\ call' = [op |-> "TranscriptionPipelineParams"]
    /\ ret' = Ok(Len(bundles) + 1)
    /\ UNCHANGED <<defaults, nassign>>

\* bundle.<sub>.<f> = x
SetAttr ==
    /\ nassign < MaxAssign
    /\ \E b \in 1..Len(bundles), sub \in SubNames :
         \E f \in AssignFields[sub] :
           \E x \in Samples(SubClass[sub], f) :
              /\ heap' = [heap EXCEPT ![bundles[b][sub]] = [@ EXCEPT ![f] = x]]
              /\ call' = [op |-> "setattr", b |-> b]
    /\ nassign' = nassign + 1
    /\ ret' = Ok("none")
    /\ UNCHANGED <<defaults, bundles>>

\* bundle.to_dict()
ToDict ==
    /\ \E b \in 1..Len(bundles) :
          /\ call' = [op |-> "TranscriptionPipelineParams.to_dict", b |-> b]
          /\ ret' = Ok(TranscriptionPipelineParams_to_dict(heap, bundles[b]))
    /\ UNCHANGED <<defaults, heap, bundles, nassign>>

\* bundle.as_list()
AsList ==
    /\ \E b \in 1..Len(bundles) :
          /\ call' = [op |-> "TranscriptionPipelineParams.as_list", b |-> b]
          /\ ret' = Ok(TranscriptionPipelineParams_as_list(heap, bundles[b]))
    /\ UNCHANGED <<defaults, heap, bundles, nassign>>

VadForm == \E c \in DefaultFormCalls : Form_VadParams(c)

DiarizationForm == \E c \in DefaultFormCalls : Form_DiarizationParams(c)

BGMSeparationForm == \E c \in DefaultFormCalls : Form_BGMSeparationParams(c)

WhisperForm == \E c \in DefaultFormCalls : Form_WhisperParams(c)

Next ==
    \/ NewBundle
    \/ SetAttr
    \/ ToDict
    \/ AsList
    \/ VadForm
    \/ DiarizationForm
    \/ BGMSeparationForm
    \/ WhisperForm

Spec == Init /\ [][Next]_vars

----------------------------------------------------------------------------
(* Claims about the bundles (Spec) *)

\* the bundle the last call was made on
CalledBundle == bundles[call.b]

\* the current value of a sub-record of a bundle
SubValue(h, b, sub) == h[b[sub]]

\* C4: as_list returns the field values of the whisper, vad, diarization and
\* bgm_separation records, in that order and each in declaration order: 44 entries,
\* those at the diarization positions being is_diarize and hf_token.
C4_AsListFlattens ==
    (call.op = "TranscriptionPipelineParams.as_list" /\ ret.st = "ok") =>
    LET b == CalledBundle
        nw == Len(WhisperParams_fields)
        nv == Len(VadParams_fields)
    IN  /\ Len(ret.val) = 44
        /\ ret.val =
              DictValues(WhisperParams_fields, SubValue(heap, b, "whisper"))
              \o DictValues(VadParams_fields, SubValue(heap, b, "vad"))
              \o DictValues(DiarizationParams_fields, SubValue(heap, b, "diarization"))
              \o DictValues(BGMSeparationParams_fields,
                            SubValue(heap, b, "bgm_separation"))
        /\ ret.val[nw + nv + 1] = SubValue(heap, b, "diarization")["is_diarize"]
        /\ ret.val[nw + nv + 2] = SubValue(heap, b, "diarization")["hf_token"]

\* the four sub-records rebuilt from a to_dict() mapping, each by its constructor
Rebuilt(d) ==
    [whisper |-> WhisperParams(d["whisper"]),
     vad |-> VadParams(d["vad"]),
     diarization |-> DiarizationParams(d["diarization"]),
     bgm_separation |-> BGMSeparationParams(d["bgm_separation"])]

\* the mapping has the four keys, each with every declared field of its sub-record
\* at its current value
C5_Mapping ==
    /\ DOMAIN ret.val = SubNames
    /\ \A sub \in SubNames :
          /\ DOMAIN ret.val[sub] = Range(FieldsOf(SubClass[sub]))
          /\ \A f \in DOMAIN ret.val[sub] :
                ret.val[sub][f] = SubValue(heap, CalledBundle, sub)[f]

\* the bundle built from the rebuilt sub-records equals the original
C5_RoundTrip ==
    \A sub \in SubNames :
        /\ Rebuilt(ret.val)[sub].st = "ok"
        /\ Rebuilt(ret.val)[sub].val = SubValue(heap, CalledBundle, sub)

\* C5: to_dict returns, for every bundle, the mapping of the four sub-records'
\* to_dict() results, and the bundle rebuilt from that mapping equals the original.
C5_ToDictRoundTrip ==
    (call.op = "TranscriptionPipelineParams.to_dict" /\ ret.st = "ok") =>
    (C5_Mapping /\ C5_RoundTrip)

\* every value of the bundle is within its declared bound and lang is not the
\* sentinel: the values are what construction would have kept
C5_AsConstructed ==
    /\ \A sub \in SubNames :
          WithinBounds(SubClass[sub], SubValue(heap, CalledBundle, sub))
    /\ SubValue(heap, CalledBundle, "whisper")["lang"] # AUTOMATIC_DETECTION

\* C5 as amended: to_dict returns that mapping for every bundle; the round trip
\* holds for every bundle whose values are within the declared bounds and whose
\* whisper.lang is not the AUTOMATIC_DETECTION sentinel.
C5_ToDictRoundTripOfValid ==
    (call.op = "TranscriptionPipelineParams.to_dict" /\ ret.st = "ok") =>
    /\ C5_Mapping
    /\ C5_AsConstructed => C5_RoundTrip

\* to_dict has been called on a bundle one of whose fields was assigned a valid value
C5_Witness ==
    /\ call.op = "TranscriptionPipelineParams.to_dict"
    /\ ret.st = "ok"
    /\ C5_AsConstructed
    /\ SubValue(heap, CalledBundle, "whisper")["lang"] = S("en")

\* a step that changes the value of sub-record sub of bundle b
Changes(b, sub) == heap'[bundles[b][sub]] # heap[bundles[b][sub]]

C7_Step ==
    \* (i) a new bundle holds the declared defaults in four instances of its own
    /\ Len(bundles') = Len(bundles) + 1 =>
          LET new == bundles'[Len(bundles')]
          IN  /\ \A sub \in SubNames : heap'[new[sub]] = DefaultOf(SubClass[sub])
              /\ \A sub, other \in SubNames : new[sub] = new[other] => sub = other
              /\ \A b \in 1..Len(bundles) : \A sub, other \in SubNames :
                    bundles[b][other] # new[sub]
              /\ \A b \in 1..Len(bundles) : bundles'[b] = bundles[b]
              /\ \A id \in 1..Len(heap) : heap'[id] = heap[id]
    \* (ii) a change to one sub-record changes no other sub-record of any bundle
    /\ \A b \in 1..Len(bundles) : \A sub \in SubNames :
          Changes(b, sub) =>
             \A b2 \in 1..Len(bundles) : \A sub2 \in SubNames :
                 (<<b2, sub2>> # <<b, sub>>) => ~Changes(b2, sub2)
    \* (iii) a form builder leaves the mapping it was given as it was
    /\ IsFormOp(call'.op) => defaults' = defaults

\* C7: a new no-argument bundle holds the declared defaults in sub-records shared
\* with no other bundle, an assignment to one sub-record leaves the others
\* unchanged, and a form-builder call leaves its defaults mapping unchanged.
C7_Independent == [][C7_Step]_vars

\* a second bundle has been constructed after a field of the first was assigned
C7_Witness ==
    /\ call.op = "TranscriptionPipelineParams"
    /\ Len(bundles) = 2
    /\ nassign > 0
    /\ heap[bundles[1]["vad"]] # VadParams_default
    /\ heap[bundles[2]["vad"]] = VadParams_default

====
